---- MODULE Spec2Model ----
(***************************************************************************)
(* KiroGate: the route layer (kiro_gateway/routes.py) and the two request  *)
(* middlewares (kiro_gateway/middleware.py), with the collaborators the    *)
(* routes call (model cache, auth manager, request handler, metrics)       *)
(* modelled from the design document where their code is not at hand.      *)
(*                                                                         *)
(* Strings are sequences of code points, an optional value (Python's None  *)
(* or a value) is a sequence of length 0 or 1 holding the value.           *)
(***************************************************************************)
EXTENDS Integers, Sequences, FiniteSets, TLC

VARIABLES
    \* ---- route layer -------------------------------------------------
    now,             \* wall clock, in TTL units
    cacheModels,     \* ModelInfoCache: the snapshot, a sequence of model ids
    lastRefreshedAt, \* ModelInfoCache: time of the last successful refresh
    refreshing,      \* ModelInfoCache: the single-flight flag of refresh()
    tasksPending,    \* refresh() tasks created by get_models, not yet run
    fetching,        \* upstream catalog fetches in flight
    accessToken,     \* KiroAuthManager._access_token (optional string)
    expiresAt,       \* KiroAuthManager: expiry of the access token
    mCacheSize,      \* metrics sink: set_cache_size
    mTokenValid,     \* metrics sink: set_token_valid
    served,          \* number of requests the router has answered
    last,            \* the request answered last, and its answer
    \* ---- the API-key dependencies, alone ---------------------------------
    probe,           \* one request: its path and its two headers
    verdict,         \* what the endpoint's dependency did with it
    \* ---- RequestTrackingMiddleware ---------------------------------------
    trk,             \* per request: position in dispatch, id, log records
    \* ---- MetricsMiddleware -----------------------------------------------
    met,             \* per request: position in dispatch, calls to the sink
    gauge,           \* metrics sink: active connections
    \* ---- TokenSession ----------------------------------------------------
    tnow,            \* wall clock of the token session
    cred,            \* the held Credential (optional)
    inflight,        \* upstream token refresh calls in flight
    refreshCalls,    \* upstream token refresh calls made so far
    callers,         \* per caller of ensureValid: position, ticket, result
    \* ---- streamTranslate -------------------------------------------------
    upstream,        \* content deltas the upstream has yet to deliver
    ending,          \* how the upstream stream ends after them
    consumed,        \* content of the deltas pulled so far
    out,             \* events emitted to the client so far
    sstate,          \* not-started / emitting / terminal
    closed           \* the client stream has been closed

routeVars == <<now, cacheModels, lastRefreshedAt, refreshing, tasksPending,
               fetching, accessToken, expiresAt, mCacheSize, mTokenValid,
               served, last>>

authVars == <<probe, verdict>>
trkVars == <<trk>>
metVars == <<met, gauge>>
tokVars == <<tnow, cred, inflight, refreshCalls, callers>>
strVars == <<upstream, ending, consumed, out, sstate, closed>>

vars == <<routeVars, authVars, trkVars, metVars, tokVars, strVars>>

\* what the actions of one layer leave alone
notRoute == <<authVars, trkVars, metVars, tokVars, strVars>>
notAuth == <<routeVars, trkVars, metVars, tokVars, strVars>>
notTrk == <<routeVars, authVars, metVars, tokVars, strVars>>
notMet == <<routeVars, authVars, trkVars, tokVars, strVars>>
notTok == <<routeVars, authVars, trkVars, metVars, strVars>>
notStr == <<routeVars, authVars, trkVars, metVars, tokVars>>

-----------------------------------------------------------------------------
(* Bounds *)
MaxTime == 2
MaxRequests == 3
NumRequests == 3
NumCallers == 3
MaxTokTime == 2
MaxDeltas == 3

-----------------------------------------------------------------------------
(* Optional values and strings *)
None == <<>>
Some(v) == <<v>>

\* Python truthiness of an optional string: None and "" are falsy.
Truthy(h) == h # None /\ h[1] # <<>>

IsAscii(s) == \A i \in 1..Len(s) : s[i] < 128

\* secrets.compare_digest on two str: TypeError unless both are ASCII.
compare_digest(a, b) ==
    IF ~IsAscii(a) \/ ~IsAscii(b) THEN "TypeError"
    ELSE IF a = b THEN "equal" ELSE "differ"

\* "Bearer " and "bearer "
BearerPrefix == <<66, 101, 97, 114, 101, 114, 32>>
LowerPrefix == <<98, 101, 97, 114, 101, 114, 32>>
\* the configured key "k1", another key "x", and a Latin-1 value
PROXY_API_KEY == <<107, 49>>
OtherKey == <<120>>
NonAsciiValue == <<233>>

\* f"Bearer {PROXY_API_KEY}"
BearerKey == BearerPrefix \o PROXY_API_KEY

verify_api_key(auth_header) ==
    IF ~Truthy(auth_header) THEN "401"
    ELSE CASE compare_digest(auth_header[1], BearerKey) = "TypeError" -> "TypeError"
           [] compare_digest(auth_header[1], BearerKey) = "differ" -> "401"
           [] OTHER -> "accept"

verify_anthropic_api_key(x_api_key, auth_header) ==
    LET viaKey == IF Truthy(x_api_key)
                  THEN compare_digest(x_api_key[1], PROXY_API_KEY)
                  ELSE "differ"
        viaAuth == IF Truthy(auth_header)
                   THEN compare_digest(auth_header[1], BearerKey)
                   ELSE "differ"
    IN  IF viaKey = "TypeError" THEN "TypeError"
        ELSE IF viaKey = "equal" THEN "accept"
        ELSE IF viaAuth = "TypeError" THEN "TypeError"
        ELSE IF viaAuth = "equal" THEN "accept"
        ELSE "401"

-----------------------------------------------------------------------------
(* Configuration and collaborators of the route layer *)

\* config.AVAILABLE_MODELS: the statically configured model ids, in order
AVAILABLE_MODELS == <<"claude-opus", "claude-sonnet", "claude-haiku">>
\* what the upstream catalog answers: the static ids and more, in its own order
UpstreamCatalog == <<"claude-haiku", "claude-opus", "claude-sonnet", "auto">>

CacheTTL == 1
TokenLifetime == 2
SafetyMargin == 1
Never == -1
Token == <<116>>

\* ModelInfoCache
is_empty == Len(cacheModels) = 0
is_stale == lastRefreshedAt = Never \/ now - lastRefreshedAt > CacheTTL
cache_size == Len(cacheModels)

\* KiroAuthManager.is_token_expiring_soon
is_token_expiring_soon == now >= expiresAt - SafetyMargin

-----------------------------------------------------------------------------
(* What the router answered *)

NoHealth == [status |-> "", token_valid |-> FALSE, cache_size |-> 0, raised |-> FALSE]

Answer(path, auth, xkey, check, admitted, status) ==
    [path |-> path, auth |-> auth, xkey |-> xkey, check |-> check,
     admitted |-> admitted, status |-> status, data |-> <<>>,
     spawned |-> FALSE, reached |-> FALSE, health |-> NoHealth]

NoRequest == Answer("", None, None, "", FALSE, 0)

\* the Authorization and x-api-key values the clients of this model send
AuthHeaders == {None, Some(BearerKey), Some(BearerPrefix \o OtherKey), Some(NonAsciiValue)}
XApiKeys == {None, Some(PROXY_API_KEY), Some(NonAsciiValue)}

\* HTTPException(401), an exception no handler catches (the server's 500), and
\* rate_limit_handler's 429
Refused(path, auth, xkey, check, admitted) ==
    /\ last' = Answer(path, auth, xkey, check, admitted,
                      IF check = "TypeError" THEN 500
                      ELSE IF check = "401" THEN 401 ELSE 429)
    /\ UNCHANGED <<now, cacheModels, lastRefreshedAt, refreshing, tasksPending,
                   fetching, accessToken, expiresAt, mCacheSize, mTokenValid>>

\* The dependency runs first and the rate limiter wraps the endpoint function.
Admitted(check, admitted) == check = "accept" /\ admitted

-----------------------------------------------------------------------------
(* GET /v1/models *)

ShouldTriggerRefresh_EmptyOnly == is_empty

ShouldTriggerRefresh == is_empty \/ is_stale

ModelListOf(ids) ==
    [i \in 1..Len(ids) |-> [id |-> ids[i], owned_by |-> "anthropic"]]

get_models_data == ModelListOf(AVAILABLE_MODELS)

get_models(auth, admitted) ==
    /\ tasksPending' = IF ShouldTriggerRefresh THEN tasksPending + 1 ELSE tasksPending
    /\ last' = [Answer("/v1/models", auth, None, "accept", admitted, 200)
                  EXCEPT !.data = get_models_data, !.spawned = ShouldTriggerRefresh]
    /\ UNCHANGED <<now, cacheModels, lastRefreshedAt, refreshing, fetching,
                   accessToken, expiresAt, mCacheSize, mTokenValid>>

GetModels(auth, admitted) ==
    /\ served < MaxRequests
    /\ served' = served + 1
    /\ UNCHANGED notRoute
    /\ LET check == verify_api_key(auth)
       IN  IF Admitted(check, admitted)
           THEN get_models(auth, admitted)
           ELSE Refused("/v1/models", auth, None, check, admitted)

-----------------------------------------------------------------------------
(* POST /v1/chat/completions and POST /v1/messages *)

ProcessOutcomes == {"ok", "validation", "authfail", "upstream"}

\* RequestHandler.process_request: encode, TokenSession.ensureValid, upstream call
process_request(path, auth, xkey, admitted, outcome) ==
    LET needsRefresh == accessToken = None \/ is_token_expiring_soon
        refreshed == needsRefresh /\ outcome \in {"ok", "upstream"}
        status == CASE outcome = "ok" -> 200
                    [] outcome = "validation" -> 400
                    [] outcome = "authfail" -> 401
                    [] OTHER -> 502
    IN  /\ outcome = "authfail" => needsRefresh
        /\ accessToken' = IF refreshed THEN Some(Token) ELSE accessToken
        /\ expiresAt' = IF refreshed THEN now + TokenLifetime ELSE expiresAt
        /\ last' = [Answer(path, auth, xkey, "accept", admitted, status)
                      EXCEPT !.reached = TRUE]
        /\ UNCHANGED <<now, cacheModels, lastRefreshedAt, refreshing, tasksPending,
                       fetching, mCacheSize, mTokenValid>>

ChatCompletions(auth, admitted, outcome) ==
    /\ served < MaxRequests
    /\ served' = served + 1
    /\ UNCHANGED notRoute
    /\ LET check == verify_api_key(auth)
       IN  IF Admitted(check, admitted)
           THEN process_request("/v1/chat/completions", auth, None, admitted, outcome)
           ELSE Refused("/v1/chat/completions", auth, None, check, admitted)

AnthropicMessages(auth, xkey, admitted, outcome) ==
    /\ served < MaxRequests
    /\ served' = served + 1
    /\ UNCHANGED notRoute
    /\ LET check == verify_anthropic_api_key(xkey, auth)
       IN  IF Admitted(check, admitted)
           THEN process_request("/v1/messages", auth, xkey, admitted, outcome)
           ELSE Refused("/v1/messages", auth, xkey, check, admitted)

-----------------------------------------------------------------------------
(* GET /health *)

health_token_valid(raises) ==
    IF accessToken = None THEN FALSE
    ELSE IF raises THEN FALSE
    ELSE ~is_token_expiring_soon

\* health with the refresh trigger of get_models in it
health_TriggersRefresh(raises) ==
    /\ mCacheSize' = cache_size
    /\ mTokenValid' = health_token_valid(raises)
    /\ tasksPending' = IF ShouldTriggerRefresh THEN tasksPending + 1 ELSE tasksPending
    /\ last' = [Answer("/health", None, None, "", TRUE, 200)
                  EXCEPT !.health = [status |-> "healthy",
                                     token_valid |-> health_token_valid(raises),
                                     cache_size |-> cache_size,
                                     raised |-> raises /\ accessToken # None]]
    /\ UNCHANGED <<now, cacheModels, lastRefreshedAt, refreshing,
                   fetching, accessToken, expiresAt>>

health(raises) ==
    /\ mCacheSize' = cache_size
    /\ mTokenValid' = health_token_valid(raises)
    /\ last' = [Answer("/health", None, None, "", TRUE, 200)
                  EXCEPT !.health = [status |-> "healthy",
                                     token_valid |-> health_token_valid(raises),
                                     cache_size |-> cache_size,
                                     raised |-> raises /\ accessToken # None]]
    /\ UNCHANGED <<now, cacheModels, lastRefreshedAt, refreshing, tasksPending,
                   fetching, accessToken, expiresAt>>

Health(raises) ==
    /\ served < MaxRequests
    /\ served' = served + 1
    /\ UNCHANGED notRoute
    /\ health(raises)

-----------------------------------------------------------------------------
(* ModelInfoCache.refresh(), run as a background task, and the clock *)

\* refresh() without its single-flight guard
RefreshStart_NoGuard ==
    /\ UNCHANGED notRoute
    /\ tasksPending > 0
    /\ tasksPending' = tasksPending - 1
    /\ refreshing' = TRUE
    /\ fetching' = fetching + 1
    /\ UNCHANGED <<now, cacheModels, lastRefreshedAt, accessToken, expiresAt,
                   mCacheSize, mTokenValid, served, last>>

RefreshStart ==
    /\ UNCHANGED notRoute
    /\ tasksPending > 0
    /\ tasksPending' = tasksPending - 1
    /\ IF refreshing
       THEN UNCHANGED <<refreshing, fetching>>
       ELSE refreshing' = TRUE /\ fetching' = fetching + 1
    /\ UNCHANGED <<now, cacheModels, lastRefreshedAt, accessToken, expiresAt,
                   mCacheSize, mTokenValid, served, last>>

RefreshSucceed ==
    /\ UNCHANGED notRoute
    /\ fetching > 0
    /\ fetching' = fetching - 1
    /\ refreshing' = FALSE
    /\ cacheModels' = UpstreamCatalog
    /\ lastRefreshedAt' = now
    /\ UNCHANGED <<now, tasksPending, accessToken, expiresAt, mCacheSize,
                   mTokenValid, served, last>>

RefreshFail ==
    /\ UNCHANGED notRoute
    /\ fetching > 0
    /\ fetching' = fetching - 1
    /\ refreshing' = FALSE
    /\ UNCHANGED <<now, cacheModels, lastRefreshedAt, tasksPending, accessToken,
                   expiresAt, mCacheSize, mTokenValid, served, last>>

Tick ==
    /\ UNCHANGED notRoute
    /\ now < MaxTime
    /\ now' = now + 1
    /\ UNCHANGED <<cacheModels, lastRefreshedAt, refreshing, tasksPending, fetching,
                   accessToken, expiresAt, mCacheSize, mTokenValid, served, last>>

-----------------------------------------------------------------------------
RouteInit ==
    /\ now = 0
    /\ cacheModels = <<>>
    /\ lastRefreshedAt = Never
    /\ refreshing = FALSE
    /\ tasksPending = 0
    /\ fetching = 0
    /\ accessToken = None
    /\ expiresAt = 0
    /\ mCacheSize = 0
    /\ mTokenValid = FALSE
    /\ served = 0
    /\ last = NoRequest

-----------------------------------------------------------------------------
(* The API-key dependency of each protected endpoint, applied to one request *)

ProtectedPaths == {"/v1/models", "/v1/chat/completions", "/v1/messages"}

ProbeAuthHeaders ==
    {None, Some(<<>>), Some(BearerKey), Some(PROXY_API_KEY),
     Some(BearerPrefix \o OtherKey), Some(LowerPrefix \o PROXY_API_KEY),
     Some(BearerKey \o <<49>>), Some(BearerPrefix \o NonAsciiValue)}
ProbeXApiKeys ==
    {None, Some(<<>>), Some(PROXY_API_KEY), Some(OtherKey), Some(BearerKey),
     Some(NonAsciiValue)}

\* dependencies=[Depends(...)] of the three routes
Depends(path, x_api_key, auth_header) ==
    IF path = "/v1/messages"
    THEN verify_anthropic_api_key(x_api_key, auth_header)
    ELSE verify_api_key(auth_header)

NoProbe == [path |-> "", auth |-> None, xkey |-> None]

Verify ==
    /\ verdict = ""
    /\ probe # NoProbe
    /\ verdict' = Depends(probe.path, probe.xkey, probe.auth)
    /\ UNCHANGED <<probe, notAuth>>

AuthIdle == probe = NoProbe /\ verdict = ""

-----------------------------------------------------------------------------
(* RequestTrackingMiddleware.dispatch *)

Reqs == 1..NumRequests
RequestIdHeaders == {None, Some(<<>>), Some(<<114>>)}
ResponseStatuses == {200, 401}

\* str(uuid.uuid4()): an id no client sends and no other request gets
uuid4(r) == <<117, 48 + r>>

TrackingIdle ==
    [pc |-> "idle", header |-> None, request_id |-> <<>>, log |-> <<>>,
     response_id |-> None]

LogRecord(event, request_id, status) ==
    [event |-> event, request_id |-> request_id, status |-> status]

TrackingEnter(r, header) ==
    /\ trk[r].pc = "idle"
    /\ LET request_id == IF Truthy(header) THEN header[1] ELSE uuid4(r)
       IN  trk' = [trk EXCEPT ![r] =
                     [pc |-> "awaiting", header |-> header, request_id |-> request_id,
                      log |-> <<LogRecord("started", request_id, 0)>>,
                      response_id |-> None]]
    /\ UNCHANGED notTrk

\* call_next returned a response
TrackingReturn(r, status) ==
    /\ trk[r].pc = "awaiting"
    /\ trk' = [trk EXCEPT
                 ![r].pc = "returned",
                 ![r].response_id = Some(trk[r].request_id),
                 ![r].log = Append(@, LogRecord("completed", trk[r].request_id, status))]
    /\ UNCHANGED notTrk

\* call_next raised an Exception: logged and raised again
TrackingRaise(r) ==
    /\ trk[r].pc = "awaiting"
    /\ trk' = [trk EXCEPT
                 ![r].pc = "raised",
                 ![r].log = Append(@, LogRecord("failed", trk[r].request_id, 0))]
    /\ UNCHANGED notTrk

\* the task is cancelled at the await: CancelledError is a BaseException,
\* "except Exception" lets it through
TrackingCancel(r) ==
    /\ trk[r].pc = "awaiting"
    /\ trk' = [trk EXCEPT ![r].pc = "cancelled"]
    /\ UNCHANGED notTrk

TrkIdle == trk = [r \in Reqs |-> TrackingIdle]

-----------------------------------------------------------------------------
(* MetricsMiddleware.dispatch *)

ModelNames == {"unknown", "claude-opus"}

MetricsIdle ==
    [pc |-> "idle", inc_request |-> <<>>, observe_latency |-> 0, inc_error |-> 0]

MetricsEnter(r) ==
    /\ met[r].pc = "idle"
    /\ met' = [met EXCEPT ![r].pc = "awaiting"]
    /\ gauge' = gauge + 1
    /\ UNCHANGED notMet

\* call_next returned a response; model is request.state.model when set
MetricsReturn(r, status, model) ==
    /\ met[r].pc = "awaiting"
    /\ met' = [met EXCEPT
                 ![r].pc = "returned",
                 ![r].inc_request = Append(@, [status |-> status, model |-> model]),
                 ![r].observe_latency = @ + 1]
    /\ gauge' = gauge - 1
    /\ UNCHANGED notMet

\* call_next raised an Exception
MetricsRaise(r) ==
    /\ met[r].pc = "awaiting"
    /\ met' = [met EXCEPT
                 ![r].pc = "raised",
                 ![r].inc_request = Append(@, [status |-> 500, model |-> "unknown"]),
                 ![r].inc_error = @ + 1,
                 ![r].observe_latency = @ + 1]
    /\ gauge' = gauge - 1
    /\ UNCHANGED notMet

\* dispatch with the decrement after the try statement instead of in finally
MetricsCancel_NoFinally(r) ==
    /\ met[r].pc = "awaiting"
    /\ met' = [met EXCEPT ![r].pc = "cancelled"]
    /\ gauge' = gauge
    /\ UNCHANGED notMet

\* the task is cancelled at the await: only the finally block runs
MetricsCancel(r) ==
    /\ met[r].pc = "awaiting"
    /\ met' = [met EXCEPT ![r].pc = "cancelled"]
    /\ gauge' = gauge - 1
    /\ UNCHANGED notMet

MetIdle == met = [r \in Reqs |-> MetricsIdle] /\ gauge = 0

-----------------------------------------------------------------------------
(* TokenSession.ensureValid *)

Callers == 1..NumCallers

Credential(token, expires) == [token |-> token, expiresAt |-> expires]

\* isExpiringSoon(): now >= expiresAt - safetyMargin
isExpiringSoon(c) == tnow >= c.expiresAt - SafetyMargin
CredentialValid == cred # None /\ ~isExpiringSoon(cred[1])

\* what ensureValid hands to its caller
Granted(c) == [kind |-> "Credential", token |-> c.token, expiresAt |-> c.expiresAt]
AuthFailure == [kind |-> "AuthFailure", token |-> 0, expiresAt |-> 0]

CallerIdle == [pc |-> "idle", ticket |-> 0, result |-> None]

\* ensureValid that never joins a refresh in flight
ensureValid_NoJoin(c) ==
    /\ callers[c].pc = "idle"
    /\ IF CredentialValid
       THEN /\ callers' = [callers EXCEPT ![c] =
                             [pc |-> "done", ticket |-> 0,
                              result |-> Some(Granted(cred[1]))]]
            /\ UNCHANGED <<inflight, refreshCalls>>
       ELSE /\ refreshCalls' = refreshCalls + 1
            /\ inflight' = inflight + 1
            /\ callers' = [callers EXCEPT ![c] =
                             [pc |-> "waiting", ticket |-> refreshCalls + 1,
                              result |-> None]]
    /\ UNCHANGED <<tnow, cred, notTok>>

\* the caller returns at once, joins the refresh in flight, or starts one
ensureValid(c) ==
    /\ callers[c].pc = "idle"
    /\ IF CredentialValid
       THEN /\ callers' = [callers EXCEPT ![c] =
                             [pc |-> "done", ticket |-> 0, result |-> Some(Granted(cred[1]))]]
            /\ UNCHANGED <<inflight, refreshCalls>>
       ELSE IF inflight > 0
       THEN /\ callers' = [callers EXCEPT ![c] =
                             [pc |-> "waiting", ticket |-> refreshCalls, result |-> None]]
            /\ UNCHANGED <<inflight, refreshCalls>>
       ELSE /\ refreshCalls' = refreshCalls + 1
            /\ inflight' = inflight + 1
            /\ callers' = [callers EXCEPT ![c] =
                             [pc |-> "waiting", ticket |-> refreshCalls + 1,
                              result |-> None]]
    /\ UNCHANGED <<tnow, cred, notTok>>

Release(result) ==
    [c \in Callers |->
        IF callers[c].pc = "waiting"
        THEN [callers[c] EXCEPT !.pc = "done", !.result = result]
        ELSE callers[c]]

\* the upstream refresh call answers: the Credential is replaced, waiters released
TokenRefreshSuccess ==
    /\ inflight > 0
    /\ inflight' = inflight - 1
    /\ LET new == Credential(refreshCalls, tnow + TokenLifetime)
       IN  /\ cred' = Some(new)
           /\ callers' = Release(Some(Granted(new)))
    /\ UNCHANGED <<tnow, refreshCalls, notTok>>

\* the upstream refresh call fails: waiters get AuthFailure, not the old Credential
TokenRefreshFailure ==
    /\ inflight > 0
    /\ inflight' = inflight - 1
    /\ callers' = Release(Some(AuthFailure))
    /\ UNCHANGED <<tnow, cred, refreshCalls, notTok>>

TokenTick ==
    /\ tnow < MaxTokTime
    /\ tnow' = tnow + 1
    /\ UNCHANGED <<cred, inflight, refreshCalls, callers, notTok>>

TokIdle ==
    /\ tnow = 0
    /\ cred = None
    /\ inflight = 0
    /\ refreshCalls = 0
    /\ callers = [c \in Callers |-> CallerIdle]

-----------------------------------------------------------------------------
(* streamTranslate *)

\* delta contents: "", "a", "b"
Contents == {<<>>, <<97>>, <<98>>}
Endings == {"stop", "length", "abrupt", "error"}

RECURSIVE SeqsUpTo(_)
SeqsUpTo(n) ==
    IF n = 0 THEN {<<>>}
    ELSE LET shorter == SeqsUpTo(n - 1)
         IN  shorter \cup {Append(q, x) : q \in shorter, x \in Contents}

ContentDelta(content) == [type |-> "delta", content |-> content, finish |-> ""]
ErrorEvent == [type |-> "error", content |-> <<>>, finish |-> ""]
Terminal(finish) == [type |-> "terminal", content |-> <<>>, finish |-> finish]

\* the next upstream delta is pulled and translated
StreamDelta ==
    /\ ~closed
    /\ upstream # <<>>
    /\ upstream' = Tail(upstream)
    /\ consumed' = Append(consumed, Head(upstream))
    /\ out' = Append(out, ContentDelta(Head(upstream)))
    /\ sstate' = "emitting"
    /\ UNCHANGED <<ending, closed, notStr>>

\* the terminal upstream delta arrives, carrying the finish reason
StreamFinish ==
    /\ ~closed
    /\ upstream = <<>>
    /\ ending \in {"stop", "length"}
    /\ out' = Append(out, Terminal(ending))
    /\ sstate' = "terminal"
    /\ closed' = TRUE
    /\ UNCHANGED <<upstream, ending, consumed, notStr>>

\* an abrupt end that closes the client stream with no terminal event
StreamAbruptEnd_NoTerminal ==
    /\ ~closed
    /\ upstream = <<>>
    /\ ending = "abrupt"
    /\ closed' = TRUE
    /\ UNCHANGED <<upstream, ending, consumed, out, sstate, notStr>>

\* the upstream stream ends without a terminal delta: an implicit "stop"
StreamAbruptEnd ==
    /\ ~closed
    /\ upstream = <<>>
    /\ ending = "abrupt"
    /\ out' = Append(out, Terminal("stop"))
    /\ sstate' = "terminal"
    /\ closed' = TRUE
    /\ UNCHANGED <<upstream, ending, consumed, notStr>>

\* the upstream stream errors: an error event, then the terminal event, then close
StreamError ==
    /\ ~closed
    /\ upstream = <<>>
    /\ ending = "error"
    /\ out' = out \o <<ErrorEvent, Terminal("error")>>
    /\ sstate' = "terminal"
    /\ closed' = TRUE
    /\ UNCHANGED <<upstream, ending, consumed, notStr>>

StrIdle ==
    /\ upstream = <<>>
    /\ ending = ""
    /\ consumed = <<>>
    /\ out = <<>>
    /\ sstate = "not-started"
    /\ closed = FALSE

-----------------------------------------------------------------------------
(* The route layer *)

Init == RouteInit /\ AuthIdle /\ TrkIdle /\ MetIdle /\ TokIdle /\ StrIdle

Next ==
    \/ \E auth \in AuthHeaders, admitted \in BOOLEAN : GetModels(auth, admitted)
    \/ \E auth \in AuthHeaders, admitted \in BOOLEAN, outcome \in ProcessOutcomes :
          ChatCompletions(auth, admitted, outcome)
    \/ \E auth \in AuthHeaders, xkey \in XApiKeys, admitted \in BOOLEAN,
          outcome \in ProcessOutcomes :
          AnthropicMessages(auth, xkey, admitted, outcome)
    \/ \E raises \in BOOLEAN : Health(raises)
    \/ RefreshStart
    \/ RefreshSucceed
    \/ RefreshFail
    \/ Tick

Spec == Init /\ [][Next]_vars

(* The API-key dependencies on every request of the probe sets *)

AuthInit ==
    /\ probe \in [path : ProtectedPaths, auth : ProbeAuthHeaders, xkey : ProbeXApiKeys]
    /\ verdict = ""
    /\ RouteInit /\ TrkIdle /\ MetIdle /\ TokIdle /\ StrIdle

AuthNext == Verify

AuthSpec == AuthInit /\ [][AuthNext]_vars

(* Concurrent requests through RequestTrackingMiddleware *)

TrackingInit == TrkIdle /\ RouteInit /\ AuthIdle /\ MetIdle /\ TokIdle /\ StrIdle

TrackingNext ==
    \/ \E r \in Reqs, header \in RequestIdHeaders : TrackingEnter(r, header)
    \/ \E r \in Reqs, status \in ResponseStatuses : TrackingReturn(r, status)
    \/ \E r \in Reqs : TrackingRaise(r)
    \/ \E r \in Reqs : TrackingCancel(r)

TrackingSpec == TrackingInit /\ [][TrackingNext]_vars

(* Concurrent requests through MetricsMiddleware *)

MetricsInit == MetIdle /\ RouteInit /\ AuthIdle /\ TrkIdle /\ TokIdle /\ StrIdle

MetricsNext ==
    \/ \E r \in Reqs : MetricsEnter(r)
    \/ \E r \in Reqs, status \in ResponseStatuses, model \in ModelNames :
          MetricsReturn(r, status, model)
    \/ \E r \in Reqs : MetricsRaise(r)
    \/ \E r \in Reqs : MetricsCancel(r)

MetricsSpec == MetricsInit /\ [][MetricsNext]_vars

(* Concurrent callers of TokenSession.ensureValid *)

TokenInit ==
    /\ tnow = 0
    /\ cred \in {None, Some(Credential(0, 1)), Some(Credential(0, 2))}
    /\ inflight = 0
    /\ refreshCalls = 0
    /\ callers = [c \in Callers |-> CallerIdle]
    /\ RouteInit /\ AuthIdle /\ TrkIdle /\ MetIdle /\ StrIdle

TokenNext ==
    \/ \E c \in Callers : ensureValid(c)
    \/ TokenRefreshSuccess
    \/ TokenRefreshFailure
    \/ TokenTick

TokenSpec == TokenInit /\ [][TokenNext]_vars

(* streamTranslate on every upstream stream of the bounded sets *)

StreamInit ==
    /\ upstream \in SeqsUpTo(MaxDeltas)
    /\ ending \in Endings
    /\ consumed = <<>>
    /\ out = <<>>
    /\ sstate = "not-started"
    /\ closed = FALSE
    /\ RouteInit /\ AuthIdle /\ TrkIdle /\ MetIdle /\ TokIdle

StreamNext ==
    \/ StreamDelta
    \/ StreamFinish
    \/ StreamAbruptEnd
    \/ StreamError

StreamSpec == StreamInit /\ [][StreamNext]_vars

-----------------------------------------------------------------------------
(* Properties *)

\* a step in which the router answers a request
Answered(path) == served' = served + 1 /\ last'.path = path

IdsOf(data) == [i \in 1..Len(data) |-> data[i].id]

CacheUntouched == UNCHANGED <<cacheModels, lastRefreshedAt, refreshing, fetching>>

\* what get_models owes a request it serves, in terms of the state it found
ModelsServed ==
    /\ last'.status = 200
    /\ IdsOf(last'.data) = AVAILABLE_MODELS
    /\ CacheUntouched
    /\ LET emptyOrStale == Len(cacheModels) = 0 \/ lastRefreshedAt = Never
                           \/ now - lastRefreshedAt > CacheTTL
       IN  /\ last'.spawned = emptyOrStale
           /\ tasksPending' = tasksPending + (IF emptyOrStale THEN 1 ELSE 0)

\* C1, as stated: every authorized GET /v1/models request is answered in the same
\* call with the static model ids in order, and a refresh task is spawned exactly
\* when the cache is empty or stale.
C1_EveryAuthorizedRequestServed ==
    [][(Answered("/v1/models") /\ last'.check = "accept") => ModelsServed]_vars

\* C1, amended: the same for every authorized GET /v1/models request that the rate
\* limiter admits; one it turns away is answered 429 and the handler does not run.
C1_AdmittedRequestServed ==
    [][(Answered("/v1/models") /\ last'.check = "accept") =>
          IF last'.admitted
          THEN ModelsServed
          ELSE last'.status = 429 /\ CacheUntouched /\ UNCHANGED tasksPending]_vars

C1_Witness ==
    /\ last.path = "/v1/models" /\ last.status = 200 /\ last.spawned
    /\ cacheModels # <<>>
    /\ now - lastRefreshedAt > CacheTTL
    /\ fetching = 1
    /\ tasksPending >= 1

\* C3: at most one upstream catalog fetch is in flight at any time, and a
\* refresh() that runs while another is running starts no fetch.
C3_RefreshSingleFlight ==
    /\ [](fetching <= 1 /\ (refreshing <=> fetching = 1))
    /\ [][(tasksPending' = tasksPending - 1 /\ refreshing) =>
             UNCHANGED <<fetching, refreshing, cacheModels, lastRefreshedAt>>]_vars

C3_Witness == fetching = 1 /\ tasksPending >= 2

\* C5, as stated: a request to a protected endpoint that does not pass the API-key
\* check ends with 401, spawns no refresh task and never reaches process_request.
C5_UnauthorizedGets401 ==
    (last.path \in ProtectedPaths /\ last.check # "accept") =>
        (last.status = 401 /\ ~last.spawned /\ ~last.reached)

\* C10: GET /health changes neither the credential nor the catalog nor the refresh
\* tasks; token_valid is true exactly when a token is held and the expiry check
\* returns false without raising; the sink gets the same value and the cache size;
\* the answer is always "healthy".
C10_HealthReadOnly ==
    [][Answered("/health") =>
          /\ UNCHANGED <<accessToken, expiresAt, cacheModels, lastRefreshedAt,
                         refreshing, tasksPending, fetching>>
          /\ last'.status = 200
          /\ last'.health.status = "healthy"
          /\ last'.health.token_valid =
                (accessToken # None /\ ~last'.health.raised
                 /\ ~(now >= expiresAt - SafetyMargin))
          /\ mTokenValid' = last'.health.token_valid
          /\ last'.health.cache_size = Len(cacheModels)
          /\ mCacheSize' = Len(cacheModels)]_vars

C10_Witness ==
    /\ last.path = "/health"
    /\ last.health.token_valid /\ mTokenValid
    /\ mCacheSize = Len(UpstreamCatalog)
    /\ is_stale

\* C4, as stated: an OpenAI-style endpoint accepts exactly the requests whose
\* Authorization header is "Bearer <key>"; /v1/messages accepts exactly those whose
\* x-api-key is <key> or whose Authorization header is "Bearer <key>"; every other
\* request is rejected with 401.
C4_ApiKeyAcceptance ==
    verdict # "" =>
        LET bearerOk == probe.auth = Some(BearerKey)
            keyOk == probe.xkey = Some(PROXY_API_KEY)
            entitled == IF probe.path = "/v1/messages" THEN keyOk \/ bearerOk
                        ELSE bearerOk
        IN  /\ (verdict = "accept") = entitled
            /\ ~entitled => verdict = "401"

Exited(pc) == pc \in {"returned", "raised", "cancelled"}

\* C2, as stated: once a request has left MetricsMiddleware.dispatch, by return,
\* exception or cancellation, inc_request and observe_latency have each been
\* called exactly once for it.
C2_OutcomeReportedOnce ==
    \A r \in Reqs :
        Exited(met[r].pc) =>
            Len(met[r].inc_request) = 1 /\ met[r].observe_latency = 1

\* C6, as stated: the correlation id is the X-Request-ID header when present and
\* non-empty, else a generated one; 'started' is logged with it at entry; once the
\* request has left dispatch, by return, exception or cancellation, exactly one
\* 'completed' or 'failed' record with the same id follows; a returned response
\* carries the id in X-Request-ID.
C6_LoggedWithCorrelationId ==
    \A r \in Reqs :
        LET t == trk[r]
        IN  /\ t.pc # "idle" =>
                /\ Truthy(t.header) => t.request_id = t.header[1]
                /\ ~Truthy(t.header) => t.request_id = uuid4(r)
                /\ Len(t.log) >= 1
                /\ t.log[1].event = "started"
                /\ \A i \in 1..Len(t.log) : t.log[i].request_id = t.request_id
            /\ Exited(t.pc) =>
                /\ Len(t.log) = 2
                /\ t.log[2].event \in {"completed", "failed"}
            /\ t.pc = "returned" => t.response_id = Some(t.request_id)

\* C9: the gauge equals the number of requests inside MetricsMiddleware.dispatch,
\* is never negative, and is back at its initial value once every request has left.
C9_GaugeBalance ==
    /\ gauge = Cardinality({r \in Reqs : met[r].pc = "awaiting"})
    /\ gauge >= 0
    /\ (\A r \in Reqs : met[r].pc # "awaiting") => gauge = 0

C9_Witness ==
    /\ gauge = 0
    /\ \E a, b, c \in Reqs :
          /\ met[a].pc = "returned"
          /\ met[b].pc = "raised"
          /\ met[c].pc = "cancelled"

\* C7: at most one upstream refresh call is in flight; callers waiting at the same
\* time wait on the same call; every upstream call made was shared by the callers
\* that hold its ticket, and they all get the same result: the Credential that call
\* produced, or AuthFailure, never the Credential held before.
C7_TokenSingleFlight ==
    /\ inflight <= 1
    /\ \A c \in Callers :
          callers[c].pc = "waiting" =>
              inflight = 1 /\ callers[c].ticket = refreshCalls
    /\ refreshCalls = Cardinality({callers[c].ticket : c \in Callers} \ {0})
    /\ \A c, d \in Callers :
          (callers[c].ticket > 0 /\ callers[c].ticket = callers[d].ticket) =>
              callers[c].pc = callers[d].pc /\ callers[c].result = callers[d].result
    /\ \A c \in Callers :
          (callers[c].pc = "done" /\ callers[c].ticket > 0) =>
              \/ callers[c].result = Some(AuthFailure)
              \/ /\ callers[c].result[1].kind = "Credential"
                 /\ callers[c].result[1].token = callers[c].ticket

C7_Witness ==
    /\ cred = Some(Credential(0, 1))
    /\ refreshCalls = 1
    /\ \A c \in Callers :
          callers[c] = [pc |-> "done", ticket |-> 1, result |-> Some(AuthFailure)]

RECURSIVE Concat(_)
Concat(seqs) == IF seqs = <<>> THEN <<>> ELSE Head(seqs) \o Concat(Tail(seqs))

IsDelta(e) == e.type = "delta"

====
